---------------------------- MODULE Spec2Model ----------------------------
(***************************************************************************)
(* Model of the `unwrap` crate (src/src/lib.rs): the trait methods         *)
(* VerboseUnwrap::verbose_unwrap for Result and Option,                    *)
(* VerboseUnwrapErr::verbose_unwrap_err for Result, and the unwrap! and    *)
(* unwrap_err! macros that call them.                                      *)
(*                                                                         *)
(* Text is modelled character by character: a string is a sequence of      *)
(* one-character strings, NL is the line break.  Option<T> is a sequence   *)
(* of length at most one: <<>> is None and <<x>> is Some(x).               *)
(***************************************************************************)
EXTENDS Integers, Sequences, FiniteSets, TLC

VARIABLES
    pc,          \* position of the current call (see Positions)
    op,          \* "unwrap" (verbose_unwrap) or "unwrap_err" (verbose_unwrap_err)
    self,        \* the container being unwrapped
    message,     \* Option<Arguments>: <<>> or <<[pieces, args]>>
    site,        \* module_path!(), file!(), line!(), column!() of the call
    msg,         \* the local `let msg = format(args)`: <<>> until bound
    ret,         \* the value the call returned: <<>> until it returns
    panicMsg,    \* the text handed to panic!: <<>> while no panic happened
    formatCalls, \* how often format(args) ran during the current call
    calls,       \* number of calls the caller has made so far
    prev         \* summary of the caller's previous (returned) call, or <<>>

vars == <<pc, op, self, message, site, msg, ret, panicMsg, formatCalls, calls, prev>>

---------------------------------------------------------------------------
(* Bounds of the model. *)

\* The caller makes at most MaxCalls calls one after the other.
MaxCalls == 2

\* Small payloads 0..MaxVal, besides the tests' 32 and a ten-digit u32.
MaxVal == 1

---------------------------------------------------------------------------
(* Characters and text. *)

NL == "\n"

TestPayload == 32

TestArg == 23

BannerWidth == 80

Repeat(c, n) == [i \in 1..n |-> c]

Spaces(n) == Repeat(" ", n)

DigitChars == <<"0", "1", "2", "3", "4", "5", "6", "7", "8", "9">>

\* <u32 as Display>::fmt and <u32 as Debug>::fmt: the decimal digits.
RECURSIVE Display(_)
Display(n) ==
    IF n < 10 THEN <<DigitChars[n + 1]>>
    ELSE Display(n \div 10) \o <<DigitChars[(n % 10) + 1]>>

\* A template is a sequence of pieces: a character, or the placeholder "{}"
\* which takes the next argument.
RECURSIVE Interpolate(_, _)
Interpolate(pieces, args) ==
    IF pieces = <<>> THEN <<>>
    ELSE IF Head(pieces) = "{}"
         THEN Display(Head(args)) \o Interpolate(Tail(pieces), Tail(args))
         ELSE <<Head(pieces)>> \o Interpolate(Tail(pieces), args)

\* std::fmt::format(args): the template with its arguments, as a String.
format(args) == Interpolate(args.pieces, args.args)

\* `{:?}` of Err::<(), E>(e) and of Ok::<T, ()>(t), the derived Debug of Result.
DebugErr(e) == <<"E", "r", "r", "(">> \o Display(e) \o <<")">>

DebugOk(t) == <<"O", "k", "(">> \o Display(t) \o <<")">>

\* The banner line of the panic text.
Banner == Repeat("!", BannerWidth)

\* The three title lines, as written in the panic! format strings.
TitleResultErr ==
    <<"!", " ", " ", " ", "u", "n", "w", "r", "a", "p", "!", " ",
      "c", "a", "l", "l", "e", "d", " ", "o", "n", " ",
      "R", "e", "s", "u", "l", "t", ":", ":", "E", "r", "r">>
    \o Spaces(46) \o <<"!">>

TitleOptionNone ==
    <<"!", " ", " ", " ", "u", "n", "w", "r", "a", "p", "!", " ",
      "c", "a", "l", "l", "e", "d", " ", "o", "n", " ",
      "O", "p", "t", "i", "o", "n", ":", ":", "N", "o", "n", "e">>
    \o Spaces(45) \o <<"!">>

\* Variant of TitleResultOk: the macro name of the title copied from verbose_unwrap.
TitleResultOk_NamesUnwrap ==
    <<"!", " ", " ", " ", "u", "n", "w", "r", "a", "p", "!", " ",
      "c", "a", "l", "l", "e", "d", " ", "o", "n", " ",
      "R", "e", "s", "u", "l", "t", ":", ":", "O", "k">>
    \o Spaces(47) \o <<"!">>

TitleResultOk ==
    <<"!", " ", " ", " ", "u", "n", "w", "r", "a", "p", "_", "e", "r", "r", "!", " ",
      "c", "a", "l", "l", "e", "d", " ", "o", "n", " ",
      "R", "e", "s", "u", "l", "t", ":", ":", "O", "k">>
    \o Spaces(43) \o <<"!">>

\* "{}:{},{} in {}" with file, line_number, column, module_path.
Location(s) ==
    s.file \o <<":">> \o Display(s.line_number) \o <<",">> \o Display(s.column)
    \o <<" ", "i", "n", " ">> \o s.module_path

\* Variant of Header: the second banner line one character short.
Header_ShortSecondBanner(title, s) ==
    <<NL, NL>> \o Banner \o <<NL>> \o title \o <<NL>> \o Tail(Banner) \o <<NL>>
    \o Location(s) \o <<NL>>

\* The part of every panic text up to and including the location line.
Header(title, s) ==
    <<NL, NL>> \o Banner \o <<NL>> \o title \o <<NL>> \o Banner \o <<NL>>
    \o Location(s) \o <<NL>>

\* The six panic! texts.
\* Variant of PanicResultErrMsg: the last two arguments of panic! exchanged.
PanicResultErrMsg_ArgumentsExchanged(s, m, e) ==
    Header(TitleResultErr, s) \o DebugErr(e) \o <<NL>> \o <<NL>> \o m \o <<NL>> \o <<NL>>

PanicResultErrMsg(s, m, e) ==
    Header(TitleResultErr, s) \o m \o <<NL>> \o <<NL>> \o DebugErr(e) \o <<NL>> \o <<NL>>

\* Variant of PanicResultErrNoMsg: `{:?}` of the bare payload e.
PanicResultErrNoMsg_BarePayload(s, e) ==
    Header(TitleResultErr, s) \o <<NL>> \o Display(e) \o <<NL>> \o <<NL>>

PanicResultErrNoMsg(s, e) ==
    Header(TitleResultErr, s) \o <<NL>> \o DebugErr(e) \o <<NL>> \o <<NL>>

PanicOptionNoneMsg(s, m) ==
    Header(TitleOptionNone, s) \o m \o <<NL>> \o <<NL>>

\* Variant of PanicOptionNoneNoMsg: the `{:?}` section of the Result texts.
PanicOptionNoneNoMsg_WithDebug(s) ==
    Header(TitleOptionNone, s) \o <<NL>> \o <<"N", "o", "n", "e">> \o <<NL>> \o <<NL>>

PanicOptionNoneNoMsg(s) ==
    Header(TitleOptionNone, s) \o <<NL>>

\* Variant of PanicResultOkMsg: the text of verbose_unwrap, copied unchanged.
PanicResultOkMsg_CopiedFromUnwrap(s, m, t) ==
    Header(TitleResultErr, s) \o m \o <<NL>> \o <<NL>> \o DebugErr(t) \o <<NL>> \o <<NL>>

PanicResultOkMsg(s, m, t) ==
    Header(TitleResultOk, s) \o m \o <<NL>> \o <<NL>> \o DebugOk(t) \o <<NL>> \o <<NL>>

PanicResultOkNoMsg(s, t) ==
    Header(TitleResultOk, s) \o <<NL>> \o DebugOk(t) \o <<NL>> \o <<NL>>

---------------------------------------------------------------------------
(* Inputs. *)

\* u32 payloads; 2147483647 is the largest u32 that TLC's integers hold.
Payloads == (0..MaxVal) \cup {TestPayload, 2147483647}

Results == [shape : {"Result"}, tag : {"Ok", "Err"}, val : {<<v>> : v \in Payloads}]

Options ==
    [shape : {"Option"}, tag : {"Some"}, val : {<<v>> : v \in Payloads}]
    \cup {[shape |-> "Option", tag |-> "None", val |-> <<>>]}

HeresAMessage ==
    <<"H", "e", "r", "e", "'", "s", " ", "a", " ", "m", "e", "s", "s", "a", "g", "e">>

\* Option<Arguments>: no message, the tests' two messages, the empty message
\* and a message of two lines.
Messages ==
    { <<>>,
      <<[pieces |-> HeresAMessage, args |-> <<>>]>>,
      <<[pieces |-> HeresAMessage \o <<" ", "{}">>, args |-> <<TestArg>>]>>,
      <<[pieces |-> <<>>, args |-> <<>>]>>,
      <<[pieces |-> <<"a", NL, "b">>, args |-> <<>>]>> }

\* Call sites: two files, each with its module path, and two places in a file.
Sites ==
    LET places == { [line_number |-> 1, column |-> 1], [line_number |-> 248, column |-> 17] }
        files  == { [file |-> <<"m", "a", "i", "n", ".", "r", "s">>,
                     module_path |-> <<"a", "p", "p">>],
                    [file |-> <<"s", "r", "c", "/", "l", "i", "b", ".", "r", "s">>,
                     module_path |-> <<"u", "n", "w", "r", "a", "p", ":", ":", "t", "e", "s", "t", "s">>] }
    IN  { [module_path |-> f.module_path, file |-> f.file,
           line_number |-> p.line_number, column |-> p.column] : f \in files, p \in places }

\* unwrap! takes a Result or an Option, unwrap_err! a Result only.
CallInputs ==
    [op : {"unwrap"}, self : Results \cup Options, message : Messages, site : Sites]
    \cup [op : {"unwrap_err"}, self : Results, message : Messages, site : Sites]

Positions == {"match", "format", "panic", "returned", "terminated"}

---------------------------------------------------------------------------
(* The caller. *)

\* The first expansion of unwrap! or unwrap_err!: the arguments are handed over,
\* nothing is rendered yet (format_args! only captures the template).
Init ==
    /\ \E in \in CallInputs :
          /\ op = in.op
          /\ self = in.self
          /\ message = in.message
          /\ site = in.site
    /\ pc = "match"
    /\ msg = <<>>
    /\ ret = <<>>
    /\ panicMsg = <<>>
    /\ formatCalls = 0
    /\ calls = 1
    /\ prev = <<>>

\* A further call by the same caller, as in the tests that unwrap twice.  Only a
\* call that returned is followed by another: a panic leaves the caller.
Call ==
    /\ pc = "returned"
    /\ calls < MaxCalls
    /\ \E in \in CallInputs :
          /\ op' = in.op
          /\ self' = in.self
          /\ message' = in.message
          /\ site' = in.site
    /\ prev' = <<[op |-> op, self |-> self, hasMsg |-> message # <<>>, ret |-> ret]>>
    /\ pc' = "match"
    /\ msg' = <<>>
    /\ ret' = <<>>
    /\ formatCalls' = 0
    /\ calls' = calls + 1
    /\ UNCHANGED panicMsg

---------------------------------------------------------------------------
(* <Result<T, E> as VerboseUnwrap>::verbose_unwrap *)

\* Variant of ResultMatch: an Err without a message falls through and returns.
ResultMatch_ErrWithoutMessageReturns ==
    /\ pc = "match" /\ op = "unwrap" /\ self.shape = "Result"
    /\ IF self.tag = "Ok" \/ message = <<>>
       THEN /\ ret' = self.val
            /\ pc' = "returned"
       ELSE /\ pc' = "format"
            /\ UNCHANGED ret
    /\ UNCHANGED <<op, self, message, site, msg, panicMsg, formatCalls, calls, prev>>

\* Variant of ResultMatch: an Ok that comes with a message is taken for a failure.
ResultMatch_OkWithMessageFails ==
    /\ pc = "match" /\ op = "unwrap" /\ self.shape = "Result"
    /\ IF self.tag = "Ok" /\ message = <<>>
       THEN /\ ret' = self.val
            /\ pc' = "returned"
       ELSE /\ pc' = IF message # <<>> THEN "format" ELSE "panic"
            /\ UNCHANGED ret
    /\ UNCHANGED <<op, self, message, site, msg, panicMsg, formatCalls, calls, prev>>

ResultMatch ==
    /\ pc = "match" /\ op = "unwrap" /\ self.shape = "Result"
    /\ IF self.tag = "Ok"
       THEN /\ ret' = self.val
            /\ pc' = "returned"
       ELSE /\ pc' = IF message # <<>> THEN "format" ELSE "panic"
            /\ UNCHANGED ret
    /\ UNCHANGED <<op, self, message, site, msg, panicMsg, formatCalls, calls, prev>>

ResultFormat ==
    /\ pc = "format" /\ op = "unwrap" /\ self.shape = "Result"
    /\ msg' = <<format(message[1])>>
    /\ formatCalls' = formatCalls + 1
    /\ pc' = "panic"
    /\ UNCHANGED <<op, self, message, site, ret, panicMsg, calls, prev>>

ResultPanic ==
    /\ pc = "panic" /\ op = "unwrap" /\ self.shape = "Result"
    /\ panicMsg' = IF message # <<>>
                   THEN PanicResultErrMsg(site, msg[1], self.val[1])
                   ELSE PanicResultErrNoMsg(site, self.val[1])
    /\ pc' = "terminated"
    /\ UNCHANGED <<op, self, message, site, msg, ret, formatCalls, calls, prev>>

(* <Option<T> as VerboseUnwrap>::verbose_unwrap *)

\* Variant of OptionMatch: the message is rendered before the match, as a caller
\* passing format!(..) would.
OptionMatch_RendersFirst ==
    /\ pc = "match" /\ op = "unwrap" /\ self.shape = "Option"
    /\ IF message # <<>>
       THEN msg' = <<format(message[1])>> /\ formatCalls' = formatCalls + 1
       ELSE UNCHANGED <<msg, formatCalls>>
    /\ IF self.tag = "Some"
       THEN /\ ret' = self.val
            /\ pc' = "returned"
       ELSE /\ pc' = "panic"
            /\ UNCHANGED ret
    /\ UNCHANGED <<op, self, message, site, panicMsg, calls, prev>>

OptionMatch ==
    /\ pc = "match" /\ op = "unwrap" /\ self.shape = "Option"
    /\ IF self.tag = "Some"
       THEN /\ ret' = self.val
            /\ pc' = "returned"
       ELSE /\ pc' = IF message # <<>> THEN "format" ELSE "panic"
            /\ UNCHANGED ret
    /\ UNCHANGED <<op, self, message, site, msg, panicMsg, formatCalls, calls, prev>>

OptionFormat ==
    /\ pc = "format" /\ op = "unwrap" /\ self.shape = "Option"
    /\ msg' = <<format(message[1])>>
    /\ formatCalls' = formatCalls + 1
    /\ pc' = "panic"
    /\ UNCHANGED <<op, self, message, site, ret, panicMsg, calls, prev>>

OptionPanic ==
    /\ pc = "panic" /\ op = "unwrap" /\ self.shape = "Option"
    /\ panicMsg' = IF message # <<>>
                   THEN PanicOptionNoneMsg(site, msg[1])
                   ELSE PanicOptionNoneNoMsg(site)
    /\ pc' = "terminated"
    /\ UNCHANGED <<op, self, message, site, msg, ret, formatCalls, calls, prev>>

(* <Result<T, E> as VerboseUnwrapErr>::verbose_unwrap_err *)

\* Variant of ErrMatch: the arms of verbose_unwrap, returning on Ok.
ErrMatch_ArmsOfUnwrap ==
    /\ pc = "match" /\ op = "unwrap_err" /\ self.shape = "Result"
    /\ IF self.tag = "Ok"
       THEN /\ ret' = self.val
            /\ pc' = "returned"
       ELSE /\ pc' = IF message # <<>> THEN "format" ELSE "panic"
            /\ UNCHANGED ret
    /\ UNCHANGED <<op, self, message, site, msg, panicMsg, formatCalls, calls, prev>>

ErrMatch ==
    /\ pc = "match" /\ op = "unwrap_err" /\ self.shape = "Result"
    /\ IF self.tag = "Err"
       THEN /\ ret' = self.val
            /\ pc' = "returned"
       ELSE /\ pc' = IF message # <<>> THEN "format" ELSE "panic"
            /\ UNCHANGED ret
    /\ UNCHANGED <<op, self, message, site, msg, panicMsg, formatCalls, calls, prev>>

ErrFormat ==
    /\ pc = "format" /\ op = "unwrap_err" /\ self.shape = "Result"
    /\ msg' = <<format(message[1])>>
    /\ formatCalls' = formatCalls + 1
    /\ pc' = "panic"
    /\ UNCHANGED <<op, self, message, site, ret, panicMsg, calls, prev>>

ErrPanic ==
    /\ pc = "panic" /\ op = "unwrap_err" /\ self.shape = "Result"
    /\ panicMsg' = IF message # <<>>
                   THEN PanicResultOkMsg(site, msg[1], self.val[1])
                   ELSE PanicResultOkNoMsg(site, self.val[1])
    /\ pc' = "terminated"
    /\ UNCHANGED <<op, self, message, site, msg, ret, formatCalls, calls, prev>>

---------------------------------------------------------------------------

Next ==
    \/ Call
    \/ ResultMatch
    \/ ResultFormat
    \/ ResultPanic
    \/ OptionMatch
    \/ OptionFormat
    \/ OptionPanic
    \/ ErrMatch
    \/ ErrFormat
    \/ ErrPanic

Spec == Init /\ [][Next]_vars

---------------------------------------------------------------------------
(* Reading a text back: lines, prefixes, decimal numbers.  These are used  *)
(* by the properties below and are independent of how the text was built.  *)

IsIn(c, s) == \E i \in 1..Len(s) : s[i] = c

Drop(s, n) == SubSeq(s, n + 1, Len(s))

StartsWith(s, p) == Len(p) <= Len(s) /\ SubSeq(s, 1, Len(p)) = p

Contains(s, p) == \E i \in 1..(Len(s) - Len(p) + 1) : SubSeq(s, i, i + Len(p) - 1) = p

\* The lines of a text: every line break ends a line; characters after the
\* last line break form a last, unterminated line.
RECURSIVE LinesOf(_)
LinesOf(s) ==
    IF s = <<>> THEN <<>>
    ELSE IF ~IsIn(NL, s) THEN <<s>>
    ELSE LET k == CHOOSE i \in 1..Len(s) : s[i] = NL /\ \A j \in 1..(i - 1) : s[j] # NL
         IN  <<SubSeq(s, 1, k - 1)>> \o LinesOf(Drop(s, k))

\* The longest prefix of s made of decimal digits.
RECURSIVE TakeDigits(_)
TakeDigits(s) ==
    IF s # <<>> /\ IsIn(Head(s), DigitChars)
    THEN <<Head(s)>> \o TakeDigits(Tail(s))
    ELSE <<>>

DigitValue(c) == (CHOOSE i \in 1..10 : DigitChars[i] = c) - 1

\* The number a non-empty digit string denotes.
RECURSIVE ValueOf(_)
ValueOf(d) ==
    IF Len(d) = 1 THEN DigitValue(d[1])
    ELSE 10 * ValueOf(SubSeq(d, 1, Len(d) - 1)) + DigitValue(d[Len(d)])

\* d is the decimal numeral of n: digits only, no leading zero, value n.
IsNumeral(d, n) ==
    /\ d # <<>>
    /\ TakeDigits(d) = d
    /\ (Len(d) > 1 => d[1] # "0")
    /\ ValueOf(d) = n

\* line is `<tag>(<numeral of n>)`, e.g. Err(32).
IsTagged(line, tag, n) ==
    /\ StartsWith(line, tag \o <<"(">>)
    /\ line # <<>> /\ line[Len(line)] = ")"
    /\ IsNumeral(SubSeq(line, Len(tag) + 2, Len(line) - 1), n)

\* line is `<file>:<line>,<column> in <scope-path>` for the call site s.
IsLocation(line, s) ==
    /\ StartsWith(line, s.file \o <<":">>)
    /\ LET a  == Drop(line, Len(s.file) + 1)
           d1 == TakeDigits(a)
           b  == Drop(a, Len(d1))
           d2 == TakeDigits(Drop(b, 1))
           c  == Drop(b, 1 + Len(d2))
       IN  /\ IsNumeral(d1, s.line_number)
           /\ StartsWith(b, <<",">>)
           /\ IsNumeral(d2, s.column)
           /\ c = <<" ", "i", "n", " ">> \o s.module_path

\* line is made only of the character c, and is not empty.
IsBanner(line, c) == line # <<>> /\ \A i \in 1..Len(line) : line[i] = c

Blank == <<>>

\* Whether the operation returns a value for this variant.
Succeeds == (op = "unwrap" /\ self.tag \in {"Ok", "Some"}) \/ (op = "unwrap_err" /\ self.tag = "Err")

Evaluating == pc \in {"match", "format", "panic"}

Literal_ResultErr == <<"R", "e", "s", "u", "l", "t", ":", ":", "E", "r", "r">>

Literal_OptionNone == <<"O", "p", "t", "i", "o", "n", ":", ":", "N", "o", "n", "e">>

Literal_ResultOk == <<"R", "e", "s", "u", "l", "t", ":", ":", "O", "k">>

---------------------------------------------------------------------------
(* Properties. *)

\* C1: unwrap on Some(v) or Ok(v) returns exactly v, with or without a message,
\* and produces no diagnostic text: the call never enters the failing branch,
\* and two calls on the same value, one with and one without a message, return
\* the same value.
C1_UnwrapPresentReturnsValue ==
    (op = "unwrap" /\ self.tag \in {"Ok", "Some"}) =>
        /\ pc \in {"match", "returned"}
        /\ panicMsg = <<>> /\ msg = <<>>
        /\ (pc = "match" => ENABLED (ResultMatch \/ OptionMatch))
        /\ (pc = "returned" => ret = self.val)
        /\ (pc = "returned" /\ prev # <<>> /\ prev[1].op = op /\ prev[1].self = self)
              => prev[1].ret = ret

C1_Witness ==
    /\ pc = "returned" /\ op = "unwrap" /\ self.tag = "Ok" /\ ret = <<TestPayload>>
    /\ message # <<>>
    /\ prev # <<>> /\ prev[1].op = "unwrap" /\ prev[1].self = self /\ ~prev[1].hasMsg

\* C2: unwrap_err on Err(e) returns exactly e, with or without a message, and
\* produces no diagnostic text and no other effect.
C2_UnwrapErrFailureReturnsError ==
    (op = "unwrap_err" /\ self.tag = "Err") =>
        /\ pc \in {"match", "returned"}
        /\ panicMsg = <<>> /\ msg = <<>> /\ formatCalls = 0
        /\ (pc = "match" => ENABLED ErrMatch)
        /\ (pc = "returned" => ret = self.val)

C2_Witness ==
    /\ pc = "returned" /\ op = "unwrap_err" /\ self.tag = "Err" /\ ret = <<TestPayload>>
    /\ message # <<>>
    /\ prev # <<>> /\ prev[1].op = "unwrap_err" /\ prev[1].self = self /\ ~prev[1].hasMsg

\* C3: unwrap on Err(e) never returns a value, with or without a message: it
\* goes on to panic, and the panic text contains `Result::Err` and a line
\* `Err(<decimal of e>)`, the tag included.
C3_UnwrapErrPanicsWithRendering ==
    (op = "unwrap" /\ self.tag = "Err") =>
        /\ pc # "returned" /\ ret = <<>>
        /\ (Evaluating => ENABLED (ResultMatch \/ ResultFormat \/ ResultPanic))
        /\ (pc = "terminated" =>
               /\ Contains(panicMsg, Literal_ResultErr)
               /\ \E i \in 1..Len(LinesOf(panicMsg)) :
                     IsTagged(LinesOf(panicMsg)[i], <<"E", "r", "r">>, self.val[1]))

C3_Witness ==
    /\ pc = "terminated" /\ op = "unwrap" /\ self.tag = "Err" /\ self.val = <<TestPayload>>
    /\ message = <<>>
    /\ Contains(panicMsg, <<"E", "r", "r", "(", "3", "2", ")">>)

\* C4: unwrap on None never returns a value, with or without a message: it goes
\* on to panic, the panic text contains `Option::None` and the location line
\* with the file, line and column supplied, and after the location line come
\* only the message (if any) and one blank line: no debug rendering.
C4_UnwrapNonePanicsWithoutRendering ==
    (op = "unwrap" /\ self.tag = "None") =>
        /\ pc # "returned" /\ ret = <<>>
        /\ (Evaluating => ENABLED (OptionMatch \/ OptionFormat \/ OptionPanic))
        /\ (pc = "terminated" =>
              LET lines == LinesOf(panicMsg)
                  mlines == IF message = <<>> THEN <<>> ELSE LinesOf(msg[1] \o <<NL>>)
              IN  /\ Contains(panicMsg, Literal_OptionNone)
                  /\ \E i \in 1..Len(lines) :
                        /\ IsLocation(lines[i], site)
                        /\ Contains(lines[i], site.file)
                        /\ SubSeq(lines, i + 1, Len(lines)) = mlines \o <<Blank>>
                  /\ panicMsg[Len(panicMsg)] = NL)

C4_Witness ==
    /\ pc = "terminated" /\ op = "unwrap" /\ self.tag = "None"
    /\ message # <<>> /\ site.line_number = 248 /\ site.column = 17
    /\ Contains(panicMsg, <<":", "2", "4", "8", ",", "1", "7", " ", "i", "n", " ">>)

\* C5: unwrap_err on Ok(v) never returns a value, with or without a message: it
\* goes on to panic, and the panic text contains `Result::Ok` and a line
\* `Ok(<decimal of v>)`.
C5_UnwrapErrOnOkPanicsWithRendering ==
    (op = "unwrap_err" /\ self.tag = "Ok") =>
        /\ pc # "returned" /\ ret = <<>>
        /\ (Evaluating => ENABLED (ErrMatch \/ ErrFormat \/ ErrPanic))
        /\ (pc = "terminated" =>
               /\ Contains(panicMsg, Literal_ResultOk)
               /\ \E i \in 1..Len(LinesOf(panicMsg)) :
                     IsTagged(LinesOf(panicMsg)[i], <<"O", "k">>, self.val[1]))

C5_Witness ==
    /\ pc = "terminated" /\ op = "unwrap_err" /\ self.tag = "Ok" /\ self.val = <<TestPayload>>
    /\ message # <<>>
    /\ Contains(panicMsg, <<"O", "k", "(", "3", "2", ")">>)

(* The line structure of a panic text. *)

\* The tag and payload the `{:?}` line of a Result text shows.
FailTag == IF op = "unwrap" THEN <<"E", "r", "r">> ELSE <<"O", "k">>

\* text has this line structure: `lead` blank lines, a banner line of the
\* character ch, a title line `!   .. called on .. !`, a second banner line of
\* the same width, the location line of the call site, the lines mlines, one
\* blank line and, for a Result, the `{:?}` line and one more blank line.
HasStructure(text, lead, ch, mlines) ==
    LET lines == LinesOf(text)
        n == lead
        k == Len(mlines)
    IN  /\ text # <<>> /\ text[Len(text)] = NL
        /\ Len(lines) = n + 5 + k + (IF self.shape = "Result" THEN 2 ELSE 0)
        /\ \A i \in 1..n : lines[i] = Blank
        /\ IsBanner(lines[n + 1], ch)
        /\ StartsWith(lines[n + 2], <<"!", " ", " ", " ">>)
        /\ Contains(lines[n + 2], <<" ", "c", "a", "l", "l", "e", "d", " ", "o", "n", " ">>)
        /\ lines[n + 2][Len(lines[n + 2])] = "!"
        /\ IsBanner(lines[n + 3], ch)
        /\ Len(lines[n + 3]) = Len(lines[n + 1])
        /\ IsLocation(lines[n + 4], site)
        /\ SubSeq(lines, n + 5, n + 4 + k) = mlines
        /\ lines[n + 5 + k] = Blank
        /\ (self.shape = "Result" =>
               /\ IsTagged(lines[n + 6 + k], FailTag, self.val[1])
               /\ lines[n + 7 + k] = Blank)

\* C6 as stated: one leading blank line, banner lines of asterisks, and the
\* message on one line.
C6_Original_AsteriskBanner ==
    pc = "terminated" =>
        HasStructure(panicMsg, 1, "*", IF message = <<>> THEN <<>> ELSE <<msg[1]>>)

\* C6 (amended): every panic text has exactly this line structure: two blank
\* lines; a banner line made only of `!`; the title line; a second banner line
\* of `!` of the same width; the location line `<file>:<line>,<column> in
\* <scope-path>`; the lines of the rendered message, only if a message was
\* supplied; one blank line; for a Result the `{:?}` line and one blank line.
\* The same structure holds for verbose_unwrap and verbose_unwrap_err.
C6_PanicTextStructure ==
    pc = "terminated" =>
        HasStructure(panicMsg, 2, "!",
                     IF message = <<>> THEN <<>> ELSE LinesOf(msg[1] \o <<NL>>))

C6_Witness ==
    /\ pc = "terminated" /\ op = "unwrap_err" /\ message # <<>> /\ ~IsIn(NL, msg[1])
    /\ Len(LinesOf(panicMsg)) = 10

(* The title line. *)

\* The line after the first line that is not blank.
TitleLine(text) ==
    LET lines == LinesOf(text)
        k == CHOOSE i \in 1..Len(lines) : lines[i] # Blank /\ \A j \in 1..(i - 1) : lines[j] = Blank
    IN  lines[k + 1]

\* line is `!   <name> called on <variant>`, then spaces only, then `!`.
IsTitle(line, name, variant) ==
    LET head == <<"!", " ", " ", " ">> \o name
                \o <<" ", "c", "a", "l", "l", "e", "d", " ", "o", "n", " ">> \o variant
        rest == Drop(line, Len(head))
    IN  /\ StartsWith(line, head)
        /\ rest # <<>> /\ rest[Len(rest)] = "!"
        /\ \A i \in 1..(Len(rest) - 1) : rest[i] = " "

VariantName ==
    IF op = "unwrap_err" THEN Literal_ResultOk
    ELSE IF self.shape = "Result" THEN Literal_ResultErr ELSE Literal_OptionNone

\* C7 as stated: the operation name of the title is exactly `unwrap` or
\* `unwrap_err`.
C7_Original_BareOperationName ==
    pc = "terminated" =>
        IsTitle(TitleLine(panicMsg),
                IF op = "unwrap" THEN <<"u", "n", "w", "r", "a", "p">>
                ELSE <<"u", "n", "w", "r", "a", "p", "_", "e", "r", "r">>,
                VariantName)

\* C7 (amended): the operation name of the title is the macro name, `unwrap!`
\* for verbose_unwrap and `unwrap_err!` for verbose_unwrap_err; the variant
\* name is `Result::Err` for unwrap on an Err, `Option::None` for unwrap on
\* None and `Result::Ok` for unwrap_err on an Ok, and no other pairing occurs.
C7_TitleNamesMacroAndVariant ==
    pc = "terminated" =>
        IsTitle(TitleLine(panicMsg),
                IF op = "unwrap" THEN <<"u", "n", "w", "r", "a", "p", "!">>
                ELSE <<"u", "n", "w", "r", "a", "p", "_", "e", "r", "r", "!">>,
                VariantName)

C7_Witness ==
    /\ pc = "terminated" /\ op = "unwrap_err" /\ self.tag = "Ok"
    /\ Contains(TitleLine(panicMsg), Literal_ResultOk)

(* The message. *)

\* The index of the location line among the lines of the panic text.
LocationIndex(lines) == CHOOSE i \in 1..Len(lines) : IsLocation(lines[i], site)

HeresAMessage23 == HeresAMessage \o <<" ", "2", "3">>

\* What follows the location line when no message was supplied: the blank line
\* and, for a Result, the `{:?}` line.
NoMessageLine(lines, i) ==
    /\ lines[i + 1] = Blank
    /\ (self.shape = "Result" => IsTagged(lines[i + 2], FailTag, self.val[1]))
    /\ (self.shape = "Option" => Len(lines) = i + 1)

\* C8 as stated: a supplied message is the single line below the location line.
C8_Original_MessageIsOneLine ==
    pc = "terminated" =>
        LET lines == LinesOf(panicMsg)
            i == LocationIndex(lines)
        IN  /\ \E j \in 1..Len(lines) : IsLocation(lines[j], site)
            /\ (message # <<>> => lines[i + 1] = msg[1] /\ lines[i + 2] = Blank)
            /\ (message = <<>> => NoMessageLine(lines, i))

\* C8 (amended): on a failing call with a message, the rendered message stands
\* verbatim right below the location line and is followed by the blank line;
\* it is a single line whenever the rendered message holds no line break
\* (`"Here's a message {}", 23` gives the line `Here's a message 23`).  Without
\* a message the location line is followed directly by the blank line.  This
\* holds for unwrap on Err, unwrap on None and unwrap_err on Ok.
C8_MessageBelowLocation ==
    pc = "terminated" =>
        LET lines == LinesOf(panicMsg)
            i == LocationIndex(lines)
            mlines == LinesOf(msg[1] \o <<NL>>)
        IN  /\ \E j \in 1..Len(lines) : IsLocation(lines[j], site)
            /\ (message # <<>> =>
                   /\ SubSeq(lines, i + 1, i + Len(mlines) + 1) = mlines \o <<Blank>>
                   /\ (~IsIn(NL, msg[1]) => lines[i + 1] = msg[1] /\ lines[i + 2] = Blank)
                   /\ (message[1].args = <<>> => msg[1] = message[1].pieces)
                   /\ (message[1].args = <<TestArg>> => lines[i + 1] = HeresAMessage23))
            /\ (message = <<>> => NoMessageLine(lines, i))

C8_Witness ==
    /\ pc = "terminated" /\ op = "unwrap" /\ self.tag = "Err"
    /\ message # <<>> /\ message[1].args = <<TestArg>>
    /\ Contains(panicMsg, <<NL>> \o HeresAMessage23 \o <<NL, NL>>)

(* The call as a state machine. *)

\* C9: a call leaves the evaluation for exactly one of "returned" and
\* "terminated", chosen by the variant of the container alone; a terminated
\* call takes no further step, and a call that returned is never changed
\* afterwards and has emitted no panic text (the only step from "returned" is
\* the caller's next call).
C9_TerminalStatesAbsorbing ==
    /\ [](/\ pc \in Positions
          /\ (pc = "returned" => Succeeds /\ ret = self.val /\ panicMsg = <<>>)
          /\ (pc \in {"format", "panic", "terminated"} => ~Succeeds /\ ret = <<>>)
          /\ (pc = "terminated" <=> panicMsg # <<>>)
          /\ (Evaluating => ENABLED Next))
    /\ [][/\ pc # "terminated"
          /\ (pc = "returned" => calls' = calls + 1 /\ pc' = "match")
          /\ (Evaluating => calls' = calls /\ <<op, self, message, site>>' = <<op, self, message, site>>)
          /\ (pc = "match" => pc' = IF Succeeds THEN "returned"
                                    ELSE IF message # <<>> THEN "format" ELSE "panic")
          /\ (pc = "format" => pc' = "panic")
          /\ (pc = "panic" => pc' = "terminated")]_vars

C9_Witness ==
    /\ pc = "terminated" /\ calls = 2 /\ prev # <<>>
    /\ prev[1].self.tag = "Ok" /\ prev[1].op = "unwrap" /\ self.tag = "Err" /\ op = "unwrap"

\* C10: format(args) runs only after the failing branch has been entered: a
\* call that returns never renders its message, and a failing call with a
\* message renders it exactly once, before panic! is reached.
C10_MessageRenderedOnFailureOnly ==
    /\ (pc \in {"match", "format", "returned"} => formatCalls = 0 /\ msg = <<>>)
    /\ (Succeeds => formatCalls = 0 /\ msg = <<>>)
    /\ (pc \in {"panic", "terminated"} =>
           /\ formatCalls = IF message # <<>> THEN 1 ELSE 0
           /\ Len(msg) = formatCalls)
    /\ (pc = "format" => message # <<>> /\ ~Succeeds /\ panicMsg = <<>>)

C10_Witness ==
    /\ pc = "terminated" /\ message # <<>> /\ formatCalls = 1 /\ self.tag = "None"
    /\ prev # <<>> /\ prev[1].hasMsg

=============================================================================
